---- MODULE Spec2Model ----
(***************************************************************************)
(* A model of the RoyalRoad scraper: the Neo4j persistence pipeline        *)
(* (scraper/pipelines.py), the item loaders (scraper/loaders) and the      *)
(* spider callbacks (scraper/spiders/royal_road.py).                       *)
(*                                                                         *)
(* Spec      one pipeline instance writing to the graph store, one store   *)
(*           statement (one auto-commit transaction) per step;             *)
(* SpecConc  several pipeline instances sharing the store, their           *)
(*           statements interleaved;                                       *)
(* SpecCrawl the crawl: the spider's callbacks, parse and parse_reviews,   *)
(*           run yield by yield on the pages the downloader may deliver,   *)
(*           each item they yield going through pipeline 1 to the store    *)
(*           before the callback goes on.                                  *)
(***************************************************************************)
EXTENDS Integers, Sequences, FiniteSets, TLC

VARIABLES
    nodes,      \* the graph store's nodes: records nid, label, id, created_at, updated_at, props
    edges,      \* the graph store's relationships: records eid, type, src, dst (node nids)
    nextId,     \* the store's next internal element id
    now,        \* the store's clock, read by datetime()
    driver,     \* per pipeline: self.driver ("none" after __init__, "open" after open_spider,
                \* "unverified" when open_spider made the driver and its first query failed,
                \* "closed" after close_spider closed a driver that was made)
    aborted,    \* per pipeline: open_spider raised, the run is over
    pc,         \* per pipeline: position inside process_item ("idle" between calls)
    missed,     \* per pipeline: the node MERGE at pc has matched no node and has not yet created one
    item,       \* per pipeline: the item of the current (or last) process_item call
    routine,    \* per pipeline: the upsert routine process_item dispatched to
    outcome,    \* per pipeline: how the last process_item call ended
    returned,   \* per pipeline: what the last process_item call returned
    pre,        \* per pipeline: the store as it was when the current call began
    committed,  \* per pipeline: the store statements the current call has committed
    merged,     \* the <<label, id>> keys whose node MERGE has committed
    errors,     \* per pipeline: the errors process_item has caught and logged
    calls,      \* per pipeline: process_item calls made so far
    phase,      \* the crawl: "start", "yielded" (the callback stands at a yield), "handed"
                \* (the pipeline has the yielded item), "parsed" (the callback has
                \* ended), "follow" (a continuation request is out)
    callback,   \* the crawl: the spider callback that ran last
    response,   \* the crawl: the page the last callback was given
    meta,       \* the crawl: the fiction_id carried by the request of the last or pending callback
    out,        \* the crawl: what the last callback has yielded so far, in order
    craised,    \* the crawl: the last callback raised
    saved,      \* the crawl: parse wrote the HTML snapshot of the start page
    hops,       \* the crawl: continuation requests followed so far
    origin      \* the crawl: the fiction_id parse resolved on the start page

vars == <<nodes, edges, nextId, now, driver, aborted, pc, missed, item, routine, outcome,
          returned, pre, committed, merged, errors, calls,
          phase, callback, response, meta, out, craised, saved, hops, origin>>

pipelineVars == <<nodes, edges, nextId, now, driver, aborted, pc, missed, item, routine,
                  outcome, returned, pre, committed, merged, errors, calls>>
crawlVars == <<phase, callback, response, meta, out, craised, saved, hops, origin>>

(***************************************************************************)
(* Bounds of the model.                                                    *)
(***************************************************************************)
\* process_item calls of Spec and SpecConc, and of one crawl
MaxItems == 2
MaxDeliveries == 3
NumWorkers == 2
MaxReviews == 2
MaxHops == 2

Workers == 1..NumWorkers

(***************************************************************************)
(* Python values.  A value that may be None is held as a sequence: None is *)
(* the empty sequence and a value v is the one-element sequence <<v>>, so  *)
(* that None differs from every number and from every text, the text       *)
(* 'None' and the empty text included.                                     *)
(***************************************************************************)
None == <<>>
Some(v) == <<v>>

\* Python truth value of an Optional[int]: `if fiction_id:` / `if not review_id:`
Truthy(v) == v /= None /\ v[1] /= 0

(***************************************************************************)
(* Text.  A str is the sequence of its characters.  A character is written *)
(* as itself when it is a printable ASCII character or the space, and by   *)
(* its code point, "U+000A", otherwise.                                    *)
(***************************************************************************)
\* str.isspace(): what str.strip() strips and what \s matches
WhitespaceChars ==
    {"U+0009", "U+000A", "U+000B", "U+000C", "U+000D", "U+001C", "U+001D", "U+001E",
     "U+001F", " ", "U+0085", "U+00A0", "U+1680", "U+2000", "U+2001", "U+2002",
     "U+2003", "U+2004", "U+2005", "U+2006", "U+2007", "U+2008", "U+2009", "U+200A",
     "U+2028", "U+2029", "U+202F", "U+205F", "U+3000"}

Newline == "U+000A"

\* The decimal digits (Unicode category Nd, Unicode 14.0), one row per script,
\* each row in the order of its digits' values 0 to 9.  The patterns of the
\* source are str patterns compiled without re.ASCII: \d is any of these, and
\* int() takes any of them for its value.
NdRows ==
    <<
       <<"0", "1", "2", "3", "4", "5", "6", "7", "8", "9">>,
       <<"U+0660", "U+0661", "U+0662", "U+0663", "U+0664", "U+0665", "U+0666", "U+0667", "U+0668", "U+0669">>,
       <<"U+06F0", "U+06F1", "U+06F2", "U+06F3", "U+06F4", "U+06F5", "U+06F6", "U+06F7", "U+06F8", "U+06F9">>,
       <<"U+07C0", "U+07C1", "U+07C2", "U+07C3", "U+07C4", "U+07C5", "U+07C6", "U+07C7", "U+07C8", "U+07C9">>,
       <<"U+0966", "U+0967", "U+0968", "U+0969", "U+096A", "U+096B", "U+096C", "U+096D", "U+096E", "U+096F">>,
       <<"U+09E6", "U+09E7", "U+09E8", "U+09E9", "U+09EA", "U+09EB", "U+09EC", "U+09ED", "U+09EE", "U+09EF">>,
       <<"U+0A66", "U+0A67", "U+0A68", "U+0A69", "U+0A6A", "U+0A6B", "U+0A6C", "U+0A6D", "U+0A6E", "U+0A6F">>,
       <<"U+0AE6", "U+0AE7", "U+0AE8", "U+0AE9", "U+0AEA", "U+0AEB", "U+0AEC", "U+0AED", "U+0AEE", "U+0AEF">>,
       <<"U+0B66", "U+0B67", "U+0B68", "U+0B69", "U+0B6A", "U+0B6B", "U+0B6C", "U+0B6D", "U+0B6E", "U+0B6F">>,
       <<"U+0BE6", "U+0BE7", "U+0BE8", "U+0BE9", "U+0BEA", "U+0BEB", "U+0BEC", "U+0BED", "U+0BEE", "U+0BEF">>,
       <<"U+0C66", "U+0C67", "U+0C68", "U+0C69", "U+0C6A", "U+0C6B", "U+0C6C", "U+0C6D", "U+0C6E", "U+0C6F">>,
       <<"U+0CE6", "U+0CE7", "U+0CE8", "U+0CE9", "U+0CEA", "U+0CEB", "U+0CEC", "U+0CED", "U+0CEE", "U+0CEF">>,
       <<"U+0D66", "U+0D67", "U+0D68", "U+0D69", "U+0D6A", "U+0D6B", "U+0D6C", "U+0D6D", "U+0D6E", "U+0D6F">>,
       <<"U+0DE6", "U+0DE7", "U+0DE8", "U+0DE9", "U+0DEA", "U+0DEB", "U+0DEC", "U+0DED", "U+0DEE", "U+0DEF">>,
       <<"U+0E50", "U+0E51", "U+0E52", "U+0E53", "U+0E54", "U+0E55", "U+0E56", "U+0E57", "U+0E58", "U+0E59">>,
       <<"U+0ED0", "U+0ED1", "U+0ED2", "U+0ED3", "U+0ED4", "U+0ED5", "U+0ED6", "U+0ED7", "U+0ED8", "U+0ED9">>,
       <<"U+0F20", "U+0F21", "U+0F22", "U+0F23", "U+0F24", "U+0F25", "U+0F26", "U+0F27", "U+0F28", "U+0F29">>,
       <<"U+1040", "U+1041", "U+1042", "U+1043", "U+1044", "U+1045", "U+1046", "U+1047", "U+1048", "U+1049">>,
       <<"U+1090", "U+1091", "U+1092", "U+1093", "U+1094", "U+1095", "U+1096", "U+1097", "U+1098", "U+1099">>,
       <<"U+17E0", "U+17E1", "U+17E2", "U+17E3", "U+17E4", "U+17E5", "U+17E6", "U+17E7", "U+17E8", "U+17E9">>,
       <<"U+1810", "U+1811", "U+1812", "U+1813", "U+1814", "U+1815", "U+1816", "U+1817", "U+1818", "U+1819">>,
       <<"U+1946", "U+1947", "U+1948", "U+1949", "U+194A", "U+194B", "U+194C", "U+194D", "U+194E", "U+194F">>,
       <<"U+19D0", "U+19D1", "U+19D2", "U+19D3", "U+19D4", "U+19D5", "U+19D6", "U+19D7", "U+19D8", "U+19D9">>,
       <<"U+1A80", "U+1A81", "U+1A82", "U+1A83", "U+1A84", "U+1A85", "U+1A86", "U+1A87", "U+1A88", "U+1A89">>,
       <<"U+1A90", "U+1A91", "U+1A92", "U+1A93", "U+1A94", "U+1A95", "U+1A96", "U+1A97", "U+1A98", "U+1A99">>,
       <<"U+1B50", "U+1B51", "U+1B52", "U+1B53", "U+1B54", "U+1B55", "U+1B56", "U+1B57", "U+1B58", "U+1B59">>,
       <<"U+1BB0", "U+1BB1", "U+1BB2", "U+1BB3", "U+1BB4", "U+1BB5", "U+1BB6", "U+1BB7", "U+1BB8", "U+1BB9">>,
       <<"U+1C40", "U+1C41", "U+1C42", "U+1C43", "U+1C44", "U+1C45", "U+1C46", "U+1C47", "U+1C48", "U+1C49">>,
       <<"U+1C50", "U+1C51", "U+1C52", "U+1C53", "U+1C54", "U+1C55", "U+1C56", "U+1C57", "U+1C58", "U+1C59">>,
       <<"U+A620", "U+A621", "U+A622", "U+A623", "U+A624", "U+A625", "U+A626", "U+A627", "U+A628", "U+A629">>,
       <<"U+A8D0", "U+A8D1", "U+A8D2", "U+A8D3", "U+A8D4", "U+A8D5", "U+A8D6", "U+A8D7", "U+A8D8", "U+A8D9">>,
       <<"U+A900", "U+A901", "U+A902", "U+A903", "U+A904", "U+A905", "U+A906", "U+A907", "U+A908", "U+A909">>,
       <<"U+A9D0", "U+A9D1", "U+A9D2", "U+A9D3", "U+A9D4", "U+A9D5", "U+A9D6", "U+A9D7", "U+A9D8", "U+A9D9">>,
       <<"U+A9F0", "U+A9F1", "U+A9F2", "U+A9F3", "U+A9F4", "U+A9F5", "U+A9F6", "U+A9F7", "U+A9F8", "U+A9F9">>,
       <<"U+AA50", "U+AA51", "U+AA52", "U+AA53", "U+AA54", "U+AA55", "U+AA56", "U+AA57", "U+AA58", "U+AA59">>,
       <<"U+ABF0", "U+ABF1", "U+ABF2", "U+ABF3", "U+ABF4", "U+ABF5", "U+ABF6", "U+ABF7", "U+ABF8", "U+ABF9">>,
       <<"U+FF10", "U+FF11", "U+FF12", "U+FF13", "U+FF14", "U+FF15", "U+FF16", "U+FF17", "U+FF18", "U+FF19">>,
       <<"U+104A0", "U+104A1", "U+104A2", "U+104A3", "U+104A4", "U+104A5", "U+104A6", "U+104A7", "U+104A8", "U+104A9">>,
       <<"U+10D30", "U+10D31", "U+10D32", "U+10D33", "U+10D34", "U+10D35", "U+10D36", "U+10D37", "U+10D38", "U+10D39">>,
       <<"U+11066", "U+11067", "U+11068", "U+11069", "U+1106A", "U+1106B", "U+1106C", "U+1106D", "U+1106E", "U+1106F">>,
       <<"U+110F0", "U+110F1", "U+110F2", "U+110F3", "U+110F4", "U+110F5", "U+110F6", "U+110F7", "U+110F8", "U+110F9">>,
       <<"U+11136", "U+11137", "U+11138", "U+11139", "U+1113A", "U+1113B", "U+1113C", "U+1113D", "U+1113E", "U+1113F">>,
       <<"U+111D0", "U+111D1", "U+111D2", "U+111D3", "U+111D4", "U+111D5", "U+111D6", "U+111D7", "U+111D8", "U+111D9">>,
       <<"U+112F0", "U+112F1", "U+112F2", "U+112F3", "U+112F4", "U+112F5", "U+112F6", "U+112F7", "U+112F8", "U+112F9">>,
       <<"U+11450", "U+11451", "U+11452", "U+11453", "U+11454", "U+11455", "U+11456", "U+11457", "U+11458", "U+11459">>,
       <<"U+114D0", "U+114D1", "U+114D2", "U+114D3", "U+114D4", "U+114D5", "U+114D6", "U+114D7", "U+114D8", "U+114D9">>,
       <<"U+11650", "U+11651", "U+11652", "U+11653", "U+11654", "U+11655", "U+11656", "U+11657", "U+11658", "U+11659">>,
       <<"U+116C0", "U+116C1", "U+116C2", "U+116C3", "U+116C4", "U+116C5", "U+116C6", "U+116C7", "U+116C8", "U+116C9">>,
       <<"U+11730", "U+11731", "U+11732", "U+11733", "U+11734", "U+11735", "U+11736", "U+11737", "U+11738", "U+11739">>,
       <<"U+118E0", "U+118E1", "U+118E2", "U+118E3", "U+118E4", "U+118E5", "U+118E6", "U+118E7", "U+118E8", "U+118E9">>,
       <<"U+11950", "U+11951", "U+11952", "U+11953", "U+11954", "U+11955", "U+11956", "U+11957", "U+11958", "U+11959">>,
       <<"U+11C50", "U+11C51", "U+11C52", "U+11C53", "U+11C54", "U+11C55", "U+11C56", "U+11C57", "U+11C58", "U+11C59">>,
       <<"U+11D50", "U+11D51", "U+11D52", "U+11D53", "U+11D54", "U+11D55", "U+11D56", "U+11D57", "U+11D58", "U+11D59">>,
       <<"U+11DA0", "U+11DA1", "U+11DA2", "U+11DA3", "U+11DA4", "U+11DA5", "U+11DA6", "U+11DA7", "U+11DA8", "U+11DA9">>,
       <<"U+16A60", "U+16A61", "U+16A62", "U+16A63", "U+16A64", "U+16A65", "U+16A66", "U+16A67", "U+16A68", "U+16A69">>,
       <<"U+16AC0", "U+16AC1", "U+16AC2", "U+16AC3", "U+16AC4", "U+16AC5", "U+16AC6", "U+16AC7", "U+16AC8", "U+16AC9">>,
       <<"U+16B50", "U+16B51", "U+16B52", "U+16B53", "U+16B54", "U+16B55", "U+16B56", "U+16B57", "U+16B58", "U+16B59">>,
       <<"U+1D7CE", "U+1D7CF", "U+1D7D0", "U+1D7D1", "U+1D7D2", "U+1D7D3", "U+1D7D4", "U+1D7D5", "U+1D7D6", "U+1D7D7">>,
       <<"U+1D7D8", "U+1D7D9", "U+1D7DA", "U+1D7DB", "U+1D7DC", "U+1D7DD", "U+1D7DE", "U+1D7DF", "U+1D7E0", "U+1D7E1">>,
       <<"U+1D7E2", "U+1D7E3", "U+1D7E4", "U+1D7E5", "U+1D7E6", "U+1D7E7", "U+1D7E8", "U+1D7E9", "U+1D7EA", "U+1D7EB">>,
       <<"U+1D7EC", "U+1D7ED", "U+1D7EE", "U+1D7EF", "U+1D7F0", "U+1D7F1", "U+1D7F2", "U+1D7F3", "U+1D7F4", "U+1D7F5">>,
       <<"U+1D7F6", "U+1D7F7", "U+1D7F8", "U+1D7F9", "U+1D7FA", "U+1D7FB", "U+1D7FC", "U+1D7FD", "U+1D7FE", "U+1D7FF">>,
       <<"U+1E140", "U+1E141", "U+1E142", "U+1E143", "U+1E144", "U+1E145", "U+1E146", "U+1E147", "U+1E148", "U+1E149">>,
       <<"U+1E2F0", "U+1E2F1", "U+1E2F2", "U+1E2F3", "U+1E2F4", "U+1E2F5", "U+1E2F6", "U+1E2F7", "U+1E2F8", "U+1E2F9">>,
       <<"U+1E950", "U+1E951", "U+1E952", "U+1E953", "U+1E954", "U+1E955", "U+1E956", "U+1E957", "U+1E958", "U+1E959">>,
       <<"U+1FBF0", "U+1FBF1", "U+1FBF2", "U+1FBF3", "U+1FBF4", "U+1FBF5", "U+1FBF6", "U+1FBF7", "U+1FBF8", "U+1FBF9">>

    >>

DigitChars == UNION { {NdRows[r][d] : d \in 1..10} : r \in 1..Len(NdRows) }
\* The value of each digit: its place in its row
DigitValue ==
    [c \in DigitChars |-> CHOOSE d \in 0..9 : \E r \in 1..Len(NdRows) : NdRows[r][d + 1] = c]
DigitOf(c) == DigitValue[c]
CharOf(d) == NdRows[1][d + 1]

\* \d+ against the whole string
IsDigits(str) == str /= <<>> /\ \A i \in 1..Len(str) : str[i] \in DigitChars

\* The value of a string of digits
RECURSIVE ToInt(_)
ToInt(str) ==
    IF str = <<>> THEN 0
    ELSE 10 * ToInt(SubSeq(str, 1, Len(str) - 1)) + DigitOf(str[Len(str)])

\* str() of an int
RECURSIVE StrOfInt(_)
StrOfInt(n) ==
    IF n < 0 THEN <<"-">> \o StrOfInt(0 - n)
    ELSE IF n < 10 THEN <<CharOf(n)>>
    ELSE Append(StrOfInt(n \div 10), CharOf(n % 10))

\* str() of an Optional[int]
Str(n) == IF n = None THEN <<"N", "o", "n", "e">> ELSE StrOfInt(n[1])

\* The longest prefix of digits of a string: what (\d+) captures at its start
RECURSIVE DigitPrefix(_)
DigitPrefix(str) ==
    IF str = <<>> \/ str[1] \notin DigitChars THEN <<>>
    ELSE <<str[1]>> \o DigitPrefix(Tail(str))

\* The string without the characters of a set at its start, at its end
RECURSIVE LStrip(_, _)
LStrip(str, chars) ==
    IF str /= <<>> /\ str[1] \in chars THEN LStrip(Tail(str), chars) ELSE str

RECURSIVE RStrip(_, _)
RStrip(str, chars) ==
    IF str /= <<>> /\ str[Len(str)] \in chars
    THEN RStrip(SubSeq(str, 1, Len(str) - 1), chars)
    ELSE str

\* str.strip()
Strip(str) == RStrip(LStrip(str, WhitespaceChars), WhitespaceChars)

\* The string without the characters of a set: re.sub(r"[...]", "", s), s.replace(c, "")
Without(str, chars) == SelectSeq(str, LAMBDA c : c \notin chars)

\* str.find(c, i): the first place at or after i where the string has a
\* character of the set, 0 when it has none
FindFrom(str, chars, i) ==
    LET places == {j \in i..Len(str) : str[j] \in chars}
    IN IF places = {} THEN 0 ELSE CHOOSE j \in places : \A k \in places : j <= k

\* str.rfind(c): the last place where the string has the character, 0 when none
RFind(str, c) ==
    LET places == {j \in 1..Len(str) : str[j] = c}
    IN IF places = {} THEN 0 ELSE CHOOSE j \in places : \A k \in places : k <= j

\* The whitespace int() skips around a numeral: that of str.isspace() except
\* the four ASCII separators FS, GS, RS and US
IntWhitespace == WhitespaceChars \ {"U+001C", "U+001D", "U+001E", "U+001F"}

\* int(str) in base 10, None where int() raises ValueError: whitespace around
\* the numeral is skipped, the numeral is an optional sign and digits, with
\* single underscores allowed between digits.  (Numerals within
\* sys.get_int_max_str_digits() digits.)
IntOf(str) ==
    LET s == RStrip(LStrip(str, IntWhitespace), IntWhitespace)
        negative == s /= <<>> /\ s[1] = "-"
        body == IF s /= <<>> /\ s[1] \in {"+", "-"} THEN Tail(s) ELSE s
        wellformed ==
            /\ body /= <<>>
            /\ body[1] \in DigitChars /\ body[Len(body)] \in DigitChars
            /\ \A i \in 1..Len(body) : body[i] \in DigitChars \cup {"_"}
            /\ \A i \in 1..(Len(body) - 1) : ~(body[i] = "_" /\ body[i + 1] = "_")
        value == ToInt(Without(body, {"_"}))
    IN IF ~wellformed THEN None
       ELSE IF negative THEN Some(0 - value) ELSE Some(value)

\* strip_whitespace of the loaders
strip_whitespace(value) == IF value = <<>> THEN value ELSE Strip(value)

\* w3lib.html.remove_tags: every match of </?([^ >/]+).*?> (DOTALL) is removed.
\* TagEnd is the place of the ">" that ends the match starting at i, 0 when
\* none starts there.
TagEnd(str, i) ==
    IF str[i] /= "<" THEN 0
    ELSE LET j == IF i + 1 <= Len(str) /\ str[i + 1] = "/" THEN i + 2 ELSE i + 1
         IN IF j > Len(str) \/ str[j] \in {" ", ">", "/"} THEN 0
            ELSE FindFrom(str, {">"}, j + 1)

RECURSIVE RemoveTagsFrom(_, _)
RemoveTagsFrom(str, i) ==
    IF i > Len(str) THEN <<>>
    ELSE LET end == TagEnd(str, i)
         IN IF end > 0 THEN RemoveTagsFrom(str, end + 1)
            ELSE <<str[i]>> \o RemoveTagsFrom(str, i + 1)

remove_tags(str) == RemoveTagsFrom(str, 1)

\* strip_html of the loaders
strip_html(value) == IF value = <<>> THEN value ELSE Strip(remove_tags(value))

\* parse_datetime_to_iso of the review loader
parse_datetime_to_iso(value) == IF value = <<>> THEN None ELSE Some(Strip(value))

\* parse_int of the fiction loader: commas and whitespace are removed first
parse_int(value) ==
    IF value = <<>> THEN None ELSE IntOf(Without(value, {","} \cup WhitespaceChars))

\* parse_int of the review loader
review_parse_int(value) == IF value = <<>> THEN None ELSE IntOf(value)

\* The string has the characters of lit from place i on
HasAt(str, lit, i) ==
    i + Len(lit) - 1 <= Len(str) /\ SubSeq(str, i, i + Len(lit) - 1) = lit

\* re.search(lit + r"(\d+)", str): the digits captured at the first place where
\* the literal is followed by a digit, <<>> when there is no match
SearchDigits(str, lit) ==
    LET hits == {i \in 1..Len(str) :
                    /\ HasAt(str, lit, i)
                    /\ i + Len(lit) <= Len(str)
                    /\ str[i + Len(lit)] \in DigitChars}
        first == CHOOSE i \in hits : \A j \in hits : i <= j
    IN IF hits = {} THEN <<>>
       ELSE DigitPrefix(SubSeq(str, first + Len(lit), Len(str)))

\* MapCompose: the values the last function of the chain returned, None dropped
RECURSIVE Flatten(_)
Flatten(options) ==
    IF options = <<>> THEN <<>> ELSE options[1] \o Flatten(Tail(options))

\* TakeFirst() on texts: the first value that is neither None nor ''
RECURSIVE TakeFirst(_)
TakeFirst(values) ==
    IF values = <<>> THEN None
    ELSE IF values[1] /= <<>> THEN Some(values[1])
    ELSE TakeFirst(Tail(values))

\* TakeFirst() on numbers: no number is None or ''
TakeFirstNumber(values) == IF values = <<>> THEN None ELSE Some(values[1])

\* Join("\n"): the values with a newline between each two
RECURSIVE Join(_)
Join(values) ==
    IF values = <<>> THEN <<>>
    ELSE IF Len(values) = 1 THEN values[1]
    ELSE values[1] \o <<Newline>> \o Join(Tail(values))

(***************************************************************************)
(* Items.  An item is a record over ItemFields and cls; a field the item   *)
(* class does not declare, or that the loader did not set, reads as None   *)
(* (ItemAdapter.get).  RoyalRoadFictionItem declares no author_id and no   *)
(* review field; RoyalRoadFictionReviewItem declares no title.  A rating   *)
(* is held in tenths of a star (4.0 is 40).                                *)
(***************************************************************************)
IntFields == {"fiction_id", "review_id", "author_id", "overall_rating", "version"}
TextFields == {"title", "description", "review_title", "review", "by",
               "reviewed_at_time", "reviewed_at_chapter", "scraped_at"}
ItemFields == IntFields \cup TextFields

\* An item of class cls holding nothing
NewItem(cls) ==
    [k \in ItemFields \cup {"cls"} |-> IF k = "cls" THEN cls ELSE None]

\* Python truth value of an item field: `not item.get(field)`
Falsy(k, v) == IF k \in IntFields THEN ~Truthy(v) ELSE v = None \/ v[1] = <<>>

\* The Fiction items process_item is given: fiction_id absent, 0 or 1, any title
RoyalRoadFictionItem ==
    { [NewItem("RoyalRoadFictionItem") EXCEPT !.fiction_id = f, !.title = t] :
      f \in {None, Some(0), Some(1)}, t \in {None, Some(<<"a">>), Some(<<"b">>)} }

\* The Review items process_item is given: every combination of the three ids
\* and of the title; the other review fields are held
RoyalRoadFictionReviewItem ==
    { [NewItem("RoyalRoadFictionReviewItem") EXCEPT
          !.fiction_id = f, !.review_id = r, !.author_id = a, !.review_title = t,
          !.review = Some(<<"t", "e", "x", "t">>), !.by = Some(<<"b", "o", "b">>),
          !.reviewed_at_time = Some(<<"2", "0", "2", "4">>),
          !.reviewed_at_chapter = Some(<<"c", "h", "1">>),
          !.overall_rating = Some(40)] :
      f \in {None, Some(0), Some(1)}, r \in {None, Some(0), Some(1)},
      a \in {None, Some(0), Some(1)}, t \in {None, Some(<<"r">>)} }

Items == RoyalRoadFictionItem \cup RoyalRoadFictionReviewItem

\* adapter.items() with `value is not None`: the fields the item holds
AdapterKeys(it) == {k \in ItemFields : it[k] /= None}

(***************************************************************************)
(* The graph store.  Node properties other than id and the two timestamps  *)
(* are a record over PropFields, None for a property never set.            *)
(***************************************************************************)
PropFields == ItemFields \ {"scraped_at", "version", "fiction_id", "author_id"}
NoProps == [k \in PropFields |-> None]

NodesOf(ns, label, id) == {n \in ns : n.label = label /\ n.id = id}

\* SET n = $properties: the keys of the map are written, the others removed
ReplaceProps(old, it, keys) ==
    [k \in PropFields |-> IF k \in keys THEN it[k] ELSE NoProps[k]]

\* SET n += $properties: the keys of the map are written, the others kept
SetProps(old, it, keys) ==
    [k \in PropFields |-> IF k \in keys THEN it[k] ELSE old[k]]

\* A node with the key is created whether or not one was matched: CREATE for MERGE
CreateNode(ns, matched, nid, label, id, it, keys, t) ==
    ns \cup { [nid |-> nid, label |-> label, id |-> id,
               created_at |-> t, updated_at |-> t,
               props |-> SetProps(NoProps, it, keys)] }

\* ON MATCH stamps created_at as well as updated_at
MergeNodeRestamps(ns, matched, nid, label, id, it, keys, t) ==
    IF matched = {}
    THEN CreateNode(ns, matched, nid, label, id, it, keys, t)
    ELSE { IF n \in matched
           THEN [n EXCEPT !.created_at = t, !.updated_at = t,
                          !.props = SetProps(@, it, keys)]
           ELSE n : n \in ns }

\* MERGE (n:Label {id: $id}) ON CREATE SET created_at, updated_at
\*                           ON MATCH SET updated_at  [SET n += $properties]
\* given the nodes its match found: it creates a node when the match found
\* none, and writes the matched nodes otherwise
MergeNode(ns, matched, nid, label, id, it, keys, t) ==
    IF matched = {}
    THEN ns \cup { [nid |-> nid, label |-> label, id |-> id,
                    created_at |-> t, updated_at |-> t,
                    props |-> SetProps(NoProps, it, keys)] }
    ELSE { IF n \in matched
           THEN [n EXCEPT !.updated_at = t, !.props = SetProps(@, it, keys)]
           ELSE n : n \in ns }

\* MATCH (a), (b) CREATE (a)-[:TYPE]->(b): a relationship is added for every
\* matched pair whether or not one exists
CreateEdge(es, ns, eid, type, srcLabel, srcId, dstLabel, dstId) ==
    es \cup { [eid |-> eid, type |-> type, src |-> p[1].nid, dst |-> p[2].nid] :
              p \in NodesOf(ns, srcLabel, srcId) \X NodesOf(ns, dstLabel, dstId) }

\* MATCH (a:LabelA {id: $x}), (b:LabelB {id: $y}) MERGE (a)-[:TYPE]->(b)
MergeEdge(es, ns, eid, type, srcLabel, srcId, dstLabel, dstId) ==
    es \cup { [eid |-> eid, type |-> type, src |-> a.nid, dst |-> b.nid] :
              <<a, b>> \in { p \in NodesOf(ns, srcLabel, srcId) \X NodesOf(ns, dstLabel, dstId) :
                             ~\E e \in es : e.type = type /\ e.src = p[1].nid /\ e.dst = p[2].nid } }

(***************************************************************************)
(* ScraperPipeline: process_item returns the item it was given.            *)
(***************************************************************************)
ScraperPipeline_process_item(it) == it

(***************************************************************************)
(* Neo4jPipeline                                                           *)
(***************************************************************************)
FictionExclude == {"scraped_at", "version", "fiction_id", "author_id"}
ReviewExclude == {"scraped_at", "version", "review_id", "author_id", "fiction_id"}

extract_fiction_properties(it) == AdapterKeys(it) \ FictionExclude
extract_review_properties(it) == AdapterKeys(it) \ ReviewExclude

\* process_item's dispatch on the identifying fields
Dispatch(it) ==
    IF it.fiction_id /= None THEN "fiction"
    ELSE IF it.review_id /= None THEN "review"
    ELSE "unknown"

(***************************************************************************)
(* Pages.  A URL is held as its text after the scheme and the host: the    *)
(* path, beginning with a slash or empty, and whatever follows the path.   *)
(* A page is what the selectors of the loaders and of the spider find on   *)
(* it.                                                                     *)
(***************************************************************************)
\* The path segments the source tests for
FictionSegment == <<"f", "i", "c", "t", "i", "o", "n">>
ProfileSegment == <<"p", "r", "o", "f", "i", "l", "e">>
UserSegment == <<"u", "s", "e", "r">>

\* The longest file name the file system takes, in bytes (NAME_MAX), and the
\* length of what _save_html_to_file adds to the name it takes from the URL:
\* "_", the timestamp %Y%m%d_%H%M%S and ".html"
NameMax == 255
SnapshotSuffixLen == 21

\* A last segment one byte too long for the snapshot's file name
LongName == [i \in 1..(NameMax - SnapshotSuffixLen + 1) |-> "a"]

Slash == <<"/">>

Urls ==
    { Slash \o FictionSegment \o <<"/", "1", "/", "s", "l", "u", "g">>,
      Slash \o FictionSegment \o <<"/", "0", "/", "s", "l", "u", "g">>,
      Slash \o FictionSegment \o <<"/", "1">>,
      Slash \o FictionSegment \o <<"/", "/", "1", "2", "/", "x">>,
      Slash \o FictionSegment \o <<"/", "1", "/">> \o LongName,
      Slash \o ProfileSegment \o <<"/", "1", "/", "n", "a", "m", "e">>,
      Slash \o UserSegment \o <<"/", "1", "/", "n", "a", "m", "e">>,
      Slash \o ProfileSegment \o <<"/", "1", "/">> \o LongName,
      Slash \o ProfileSegment,
      <<>>,
      <<"/", "o", "t", "h", "e", "r", "/", "x", "/">> }

\* The literals of the patterns /fiction/(\d+)/, /profile/(\d+), review-(\d+)
\* and star-(\d+)
FictionLiteral == <<"/", "f", "i", "c", "t", "i", "o", "n", "/">>
ProfileLiteral == <<"/", "p", "r", "o", "f", "i", "l", "e", "/">>
ReviewLiteral == <<"r", "e", "v", "i", "e", "w", "-">>
StarLiteral == <<"s", "t", "a", "r", "-">>

\* An <a href="/profile/..."> a selector found: the text nodes of the link and
\* its href; NoLink when the selector matched nothing
NoLink == [found |-> FALSE, texts |-> <<>>, href |-> <<>>]
Link(texts, href) == [found |-> TRUE, texts |-> texts, href |-> href]

\* One .review element: its id attribute ('' when it has none), what the
\* selectors of the title, the text, the time and the chapter find in it, its
\* reviewer link, and the class attribute of its first overall-score star
\* ('' when it has none)
MkReview(id, titles, link, stars) ==
    [id |-> id, review_title |-> titles,
     review |-> << <<" ", "l", "1">>, <<"<", "b", ">", "l", "2">> >>,
     link |-> link,
     time |-> << <<"2", "0", "2", "4", " ">> >>,
     chapter |-> << <<"c", "h", "1">> >>,
     stars |-> stars]

\* A review element that gives every field, one without an id attribute and one
\* whose star class is star-0
CompleteReview ==
    MkReview(ReviewLiteral \o <<"7">>, << <<" ">>, <<" ", "r", " ">> >>,
             Link(<< <<"b", "o", "b">> >>, ProfileLiteral \o <<"9">>),
             <<"s", "t", "a", "r", " ">> \o StarLiteral \o <<"4", "0">>)
NoIdReview ==
    MkReview(<<>>, << <<"r">> >>,
             Link(<< <<"b", "o", "b">> >>, ProfileLiteral \o <<"9">>),
             StarLiteral \o <<"4", "0">>)
StarZeroReview ==
    MkReview(ReviewLiteral \o <<"7">>, << <<"r">> >>,
             Link(<< <<"b", "o", "b">> >>, ProfileLiteral \o <<"9">>),
             StarLiteral \o <<"0">>)

ReviewElements ==
    { CompleteReview,
      MkReview(ReviewLiteral \o <<"8">>, << <<"r">> >>,
               Link(<< <<"e", "v", "e">> >>, ProfileLiteral \o <<"9">>),
               StarLiteral \o <<"6", "0">>),
      NoIdReview,
      MkReview(ReviewLiteral \o <<"7">>, << <<"r">> >>,
               Link(<< <<"b", "o", "b">> >>, ProfileLiteral \o <<"x">>),
               StarLiteral \o <<"4", "0">>),
      MkReview(ReviewLiteral \o <<"7">>, << <<"r">> >>, NoLink,
               StarLiteral \o <<"4", "0">>),
      StarZeroReview,
      MkReview(ReviewLiteral \o <<"7">>, << <<" ", "U+000A">> >>,
               Link(<< <<"b", "o", "b">> >>, ProfileLiteral \o <<"9">>),
               StarLiteral \o <<"4", "0">>) }

\* The review elements of the pages a "Next" link leads to
ContinuationReviews == {CompleteReview, NoIdReview, StarZeroReview}

RECURSIVE SeqsUpTo(_, _)
SeqsUpTo(S, n) ==
    IF n = 0 THEN {<<>>}
    ELSE LET shorter == SeqsUpTo(S, n - 1)
         IN shorter \cup {Append(q, x) : q \in shorter, x \in S}

\* What the three description selectors find, each in document order:
\* .description .hidden-content *::text, .description::text and the
\* og:description meta tag
NoDescription == [hidden |-> <<>>, text |-> <<>>, meta |-> <<>>]
Descriptions ==
    { NoDescription,
      [hidden |-> << <<" ", "<", "b", ">", "A", " ">>, <<"B">> >>, text |-> <<>>, meta |-> <<>>],
      [hidden |-> << <<"A">> >>, text |-> << <<"T">> >>, meta |-> << <<"M">> >>] }

MkPage(url, scripts, portlet, fictitle, title, description, reviews, next) ==
    [url |-> url, scripts |-> scripts, portlet |-> portlet, fictitle |-> fictitle,
     title |-> title, description |-> description, reviews |-> reviews, next |-> next]

NoPage == MkPage(<<>>, <<>>, NoLink, NoLink, <<>>, NoDescription, <<>>, FALSE)

\* What parse reads of a page for its Fiction item.  scripts: for each <script>,
\* the digits of its window.fictionId assignment (<<>> for a script without
\* one).  title: what the four title selectors find, in their order.
FictionPages ==
    { MkPage(u, s, p, f, t, d, <<>>, FALSE) :
        u \in Urls,
        s \in { <<>>, << <<"0">> >>, << <<>>, <<"2">> >> },
        p \in { NoLink,
                Link(<< <<"a", "n", "n">> >>, ProfileLiteral \o <<"x">>),
                Link(<< <<"a", "n", "n">> >>, ProfileLiteral \o <<"5">>) },
        f \in { NoLink, Link(<< <<"a", "n", "n">> >>, ProfileLiteral \o <<"6">>) },
        t \in { <<>>, << <<" ">>, <<" ", "a">> >> },
        d \in Descriptions }

\* What parse reads of a page for its reviews: up to max_reviews .review
\* elements and the Next link, on a page that gives a title and nothing else
\* of the fiction
ReviewPages(max_reviews) ==
    { MkPage(u, s, NoLink, NoLink, << <<" ">>, <<" ", "a">> >>, NoDescription, r, n) :
        u \in Urls,
        s \in { <<>>, << <<"0">> >>, << <<>>, <<"2">> >> },
        r \in SeqsUpTo(ReviewElements, max_reviews),
        n \in BOOLEAN }

\* The pages a start URL may show
Pages(max_reviews) == FictionPages \cup ReviewPages(max_reviews)

\* The URLs of the pages a "Next" link may lead to: one that names a fiction, one
\* that names fiction 0, one that names none and the empty one
ContinuationUrls ==
    { Slash \o FictionSegment \o <<"/", "1", "/", "s", "l", "u", "g">>,
      Slash \o FictionSegment \o <<"/", "0", "/", "s", "l", "u", "g">>,
      Slash \o FictionSegment \o <<"/", "/", "1", "2", "/", "x">>,
      <<>> }

\* The pages a "Next" link may lead to: what parse_reviews reads of a page
ContinuationPages ==
    { MkPage(u, <<>>, NoLink, NoLink, <<>>, NoDescription, r, n) :
        u \in ContinuationUrls, r \in SeqsUpTo(ContinuationReviews, MaxReviews),
        n \in BOOLEAN }

(***************************************************************************)
(* scraper/loaders                                                         *)
(***************************************************************************)
\* urlparse(url).path of a URL's text after its scheme and host, and of an href
\* that begins with one slash, as the hrefs the a[href^="/profile/"] selectors
\* take do: it has no scheme and no network location.  Tabs and line ends are
\* removed, the fragment, the query and the parameters of the last segment are
\* cut off.  (Hrefs that begin with a scheme or with two slashes are outside
\* this definition.)
UrlPath(href) ==
    LET url == Without(href, {"U+0009", "U+000D", "U+000A"})
        hash == FindFrom(url, {"#"}, 1)
        nofragment == IF hash = 0 THEN url ELSE SubSeq(url, 1, hash - 1)
        mark == FindFrom(nofragment, {"?"}, 1)
        noquery == IF mark = 0 THEN nofragment ELSE SubSeq(nofragment, 1, mark - 1)
        slash == RFind(noquery, "/")
        semicolon == FindFrom(noquery, {";"}, IF slash = 0 THEN 1 ELSE slash)
    IN IF semicolon = 0 THEN noquery ELSE SubSeq(noquery, 1, semicolon - 1)

\* re.search(r"/fiction/(\d+)/", path): the places of the path where the
\* literal /fiction/ is followed by digits and the digits by a slash
FictionIdMatches(path) ==
    { i \in 1..Len(path) :
        /\ HasAt(path, FictionLiteral, i)
        /\ LET digits == DigitPrefix(SubSeq(path, i + Len(FictionLiteral), Len(path)))
           IN /\ digits /= <<>>
              /\ HasAt(path, Slash, i + Len(FictionLiteral) + Len(digits)) }

\* int(match.group(1)) of the leftmost match, None when there is none
FictionIdIn(path) ==
    LET matches == FictionIdMatches(path)
        first == CHOOSE i \in matches : \A j \in matches : i <= j
    IN IF matches = {} THEN None
       ELSE Some(ToInt(DigitPrefix(SubSeq(path, first + Len(FictionLiteral), Len(path)))))

\* extract_fiction_id_from_url of the loaders and
\* RoyalRoadSpider._extract_fiction_id_from_url, the path parsed once
extract_fiction_id_from_url(url) ==
    IF url = <<>> THEN None
    ELSE CHOOSE id \in {FictionIdIn(path) : path \in {UrlPath(url)}} : TRUE

\* The first script with a window.fictionId assignment
RECURSIVE extract_fiction_id_from_script(_)
extract_fiction_id_from_script(scripts) ==
    IF scripts = <<>> THEN None
    ELSE IF IsDigits(scripts[1]) THEN Some(ToInt(scripts[1]))
    ELSE extract_fiction_id_from_script(Tail(scripts))

\* re.search(r"/profile/(\d+)", urlparse(url).path)
extract_author_id_from_url(url) ==
    LET digits == SearchDigits(UrlPath(url), ProfileLiteral)
    IN IF url = <<>> \/ digits = <<>> THEN None ELSE Some(ToInt(digits))

\* re.search(r"review-(\d+)", id)
extract_review_id_from_id(value) ==
    LET digits == SearchDigits(value, ReviewLiteral)
    IN IF value = <<>> \/ digits = <<>> THEN None ELSE Some(ToInt(digits))

\* re.search(r"star-(\d+)", class), star_value / 10.0 held in tenths
parse_star_rating(value) ==
    LET digits == SearchDigits(value, StarLiteral)
    IN IF value = <<>> \/ digits = <<>> THEN None ELSE Some(ToInt(digits))

\* title_in, by_in, ...: MapCompose(strip_whitespace) over the values of a selector
StripAll(values) == [i \in 1..Len(values) |-> strip_whitespace(values[i])]

\* description_in, review_in: MapCompose(strip_html, strip_whitespace)
StripHtmlAll(values) ==
    [i \in 1..Len(values) |-> strip_whitespace(strip_html(values[i]))]

\* RoyalRoadFictionLoader.populate_from_response: the values collected per
\* field, after the field's input processor
populate_from_response(page) ==
    LET first == IF page.portlet.found THEN page.portlet.href ELSE <<>>
        author_url == IF first /= <<>> THEN first
                      ELSE IF page.fictitle.found THEN page.fictitle.href
                      ELSE <<>>
    IN [title |-> StripAll(page.title),
        description |-> StripHtmlAll(page.description.hidden \o page.description.text
                                     \o page.description.meta),
        author_id |-> IF author_url = <<>> THEN <<>>
                      ELSE extract_author_id_from_url(strip_whitespace(author_url))]

\* The fiction_id RoyalRoadFictionLoader.load_item adds: from the URL, else from
\* the script, through fiction_id_in
ResolveFictionId(page) ==
    LET from_url == extract_fiction_id_from_url(page.url)
        from_script == extract_fiction_id_from_script(page.scripts)
    IN IF Truthy(from_url) THEN parse_int(strip_whitespace(Str(from_url)))
       ELSE IF Truthy(from_script) THEN parse_int(strip_whitespace(Str(from_script)))
       ELSE None

\* RoyalRoadFictionLoader.load_item, after populate_from_response.  ItemLoader
\* .load_item assigns every collected field to the item, and a scrapy.Item
\* raises KeyError for a field its class does not declare: author_id.
load_fiction_item(page) ==
    LET values == populate_from_response(page)
    IN [raised |-> values.author_id /= <<>>,
        item |-> [NewItem("RoyalRoadFictionItem") EXCEPT
                     !.title = TakeFirst(values.title),
                     !.description = IF values.description = <<>> THEN None
                                     ELSE Some(Join(values.description)),
                     !.fiction_id = ResolveFictionId(page)]]

\* RoyalRoadFictionReviewLoader: populate_from_review, the spider's
\* add_value("fiction_id", str(fiction_id)), and load_item
load_review_item(el, fiction_id) ==
    [NewItem("RoyalRoadFictionReviewItem") EXCEPT
        !.review_id = IF el.id = <<>> THEN None
                      ELSE extract_review_id_from_id(strip_whitespace(el.id)),
        !.review_title = TakeFirst(StripAll(el.review_title)),
        !.review = IF el.review = <<>> THEN None
                   ELSE Some(Join(StripHtmlAll(el.review))),
        !.by = TakeFirst(StripAll(el.link.texts)),
        !.author_id = IF el.link.found /\ el.link.href /= <<>>
                      THEN extract_author_id_from_url(strip_whitespace(el.link.href))
                      ELSE None,
        !.reviewed_at_time =
            TakeFirst(Flatten([i \in 1..Len(el.time) |->
                                  parse_datetime_to_iso(strip_whitespace(el.time[i]))])),
        !.reviewed_at_chapter = TakeFirst(StripAll(el.chapter)),
        !.overall_rating = IF el.stars = <<>> THEN None
                           ELSE parse_star_rating(strip_whitespace(el.stars)),
        !.fiction_id = review_parse_int(strip_whitespace(Str(fiction_id)))]

(***************************************************************************)
(* RoyalRoadSpider                                                         *)
(***************************************************************************)
\* str.split(c)
RECURSIVE Split(_, _)
Split(str, c) ==
    LET i == FindFrom(str, {c}, 1)
    IN IF i = 0 THEN <<str>>
       ELSE <<SubSeq(str, 1, i - 1)>> \o Split(SubSeq(str, i + 1, Len(str)), c)

\* parsed_url.path.strip("/").split("/")
PathSplit(url) == Split(RStrip(LStrip(UrlPath(url), {"/"}), {"/"}), "/")

\* [part for part in parsed_url.path.strip("/").split("/") if part]
PathParts(url) == SelectSeq(PathSplit(url), LAMBDA part : part /= <<>>)

\* RoyalRoadSpider._determine_page_type
determine_page_type(url) ==
    LET path_parts == PathParts(url)
    IN IF path_parts = <<>> THEN "fiction"
       ELSE IF path_parts[1] \in {ProfileSegment, UserSegment} /\ Len(path_parts) >= 2
       THEN "author"
       ELSE "fiction"

\* The bytes of a character in UTF-8, from its code point
Utf8Len(c) ==
    IF Len(c) = 1 THEN 1
    ELSE IF Len(c) > 6 THEN 4
    ELSE IF SubSeq(c, 3, 4) = "00" /\ SubSeq(c, 5, 5) \in {"0", "1", "2", "3", "4", "5", "6", "7"}
    THEN 1
    ELSE IF SubSeq(c, 3, 3) = "0" /\ SubSeq(c, 4, 4) \in {"0", "1", "2", "3", "4", "5", "6", "7"}
    THEN 2
    ELSE 3

\* len(str.encode("utf-8"))
Utf8Bytes(str) ==
    LET OfLen(n) == Cardinality({i \in 1..Len(str) : Utf8Len(str[i]) = n})
    IN OfLen(1) + 2 * OfLen(2) + 3 * OfLen(3) + 4 * OfLen(4)

\* fiction_name = path_parts[-1]: the last part of the path, '' for the empty path
SnapshotName(url) ==
    LET path_parts == PathSplit(url)
    IN path_parts[Len(path_parts)]

\* RoyalRoadSpider._save_html_to_file: TRUE when the snapshot is written.  The
\* file is {fiction_name}_{timestamp}.html in examples/html, a directory the run
\* can make and write to; write_text raises OSError (File name too long) for a
\* name of more than NameMax bytes.
save_html_to_file(url) == Utf8Bytes(SnapshotName(url)) + SnapshotSuffixLen <= NameMax

RequiredReviewFields ==
    {"review_id", "review_title", "review", "by", "author_id", "reviewed_at_time",
     "reviewed_at_chapter", "overall_rating", "fiction_id"}

missing_fields(it) == {f \in RequiredReviewFields : Falsy(f, it[f])}

\* What a callback yields: items and follow requests
ItemOut(it) == [kind |-> "item", item |-> it, meta |-> None]
RequestOut(fiction_id) == [kind |-> "request", item |-> NewItem("Request"), meta |-> fiction_id]
\* `yield None`: neither an item nor a request, the engine passes it to nobody
NoneOut == [kind |-> "none", item |-> NewItem("None"), meta |-> None]

RECURSIVE extract_reviews_from_page(_, _)
extract_reviews_from_page(elements, fiction_id) ==
    IF elements = <<>> THEN <<>>
    ELSE LET Kept(it) == IF missing_fields(it) = {} THEN <<ItemOut(it)>> ELSE <<>>
         IN (CHOOSE kept \in {Kept(it) : it \in {load_review_item(elements[1], fiction_id)}} :
                TRUE)
            \o extract_reviews_from_page(Tail(elements), fiction_id)

\* The follow request for the page's "Next" link
FollowNext(page, fiction_id) ==
    IF page.next THEN <<RequestOut(fiction_id)>> ELSE <<>>

\* RoyalRoadSpider.parse: what it yields, or that it raised, whether it wrote the
\* page's snapshot, and the fiction_id it went on to the reviews with (None when
\* it did not).  The snapshot is written before the page type is looked at, and
\* nothing catches what the write raises.
ParseOutput(page) ==
    IF ~save_html_to_file(page.url)
    THEN [raised |-> TRUE, saved |-> FALSE, out |-> <<>>, fiction_id |-> None]
    ELSE IF determine_page_type(page.url) = "fiction"
    THEN LET Extracted(loaded) ==
                 LET fiction_id == loaded.item.fiction_id
                 IN IF loaded.raised
                    THEN [raised |-> TRUE, saved |-> TRUE, out |-> <<>>, fiction_id |-> None]
                    ELSE [raised |-> FALSE, saved |-> TRUE,
                          out |-> <<ItemOut(loaded.item)>> \o
                                  (IF Truthy(fiction_id)
                                   THEN extract_reviews_from_page(page.reviews, fiction_id)
                                        \o FollowNext(page, fiction_id)
                                   ELSE <<>>),
                          fiction_id |-> fiction_id]
         IN CHOOSE result \in {Extracted(loaded) : loaded \in {load_fiction_item(page)}} : TRUE
    ELSE [raised |-> FALSE, saved |-> TRUE, out |-> <<NoneOut>>, fiction_id |-> None]

\* parse_reviews without its early return for a page no fiction_id is known of
ParseReviewsOutputNoAbort(page, carried) ==
    LET Yields(fiction_id) ==
            extract_reviews_from_page(page.reviews, fiction_id) \o FollowNext(page, fiction_id)
    IN CHOOSE full \in
           {Yields(fiction_id) :
               fiction_id \in {IF Truthy(carried) THEN carried
                               ELSE extract_fiction_id_from_url(page.url)}} : TRUE

\* parse_reviews taking the fiction_id of the page's own URL before the carried one
ParseReviewsOutputUrlFirst(page, carried) ==
    LET Yields(fiction_id) ==
            IF ~Truthy(fiction_id) THEN <<>>
            ELSE extract_reviews_from_page(page.reviews, fiction_id)
                 \o FollowNext(page, fiction_id)
    IN CHOOSE full \in
           {Yields(IF Truthy(from_url) THEN from_url ELSE carried) :
               from_url \in {extract_fiction_id_from_url(page.url)}} : TRUE

\* RoyalRoadSpider.parse_reviews, given the page and the fiction_id its request carried
ParseReviewsOutput(page, carried) ==
    LET Yields(fiction_id) ==
            IF ~Truthy(fiction_id) THEN <<>>
            ELSE extract_reviews_from_page(page.reviews, fiction_id)
                 \o FollowNext(page, fiction_id)
    IN CHOOSE full \in
           {Yields(fiction_id) :
               fiction_id \in {IF Truthy(carried) THEN carried
                               ELSE extract_fiction_id_from_url(page.url)}} : TRUE

\* The process_item calls made so far, over all pipelines
RECURSIVE SumOver(_, _)
SumOver(f, S) ==
    IF S = {} THEN 0
    ELSE LET x == CHOOSE y \in S : TRUE IN f[x] + SumOver(f, S \ {x})

TotalCalls == SumOver(calls, Workers)

Init ==
    /\ nodes = {}
    /\ edges = {}
    /\ nextId = 1
    /\ now = 1
    /\ driver = [w \in Workers |-> "none"]
    /\ aborted = [w \in Workers |-> FALSE]
    /\ pc = [w \in Workers |-> "idle"]
    /\ missed = [w \in Workers |-> FALSE]
    /\ item = [w \in Workers |-> CHOOSE i \in Items : TRUE]
    /\ routine = [w \in Workers |-> "none"]
    /\ outcome = [w \in Workers |-> "none"]
    /\ returned = [w \in Workers |-> CHOOSE i \in Items : TRUE]
    /\ pre = [w \in Workers |-> [nodes |-> {}, edges |-> {}]]
    /\ committed = [w \in Workers |-> <<>>]
    /\ merged = {}
    /\ errors = [w \in Workers |-> 0]
    /\ calls = [w \in Workers |-> 0]
    /\ phase = "start"
    /\ callback = "none"
    /\ response = NoPage
    /\ meta = None
    /\ out = <<>>
    /\ craised = FALSE
    /\ saved = FALSE
    /\ hops = 0
    /\ origin = None

open_spider(w) ==
    /\ pc[w] = "idle" /\ driver[w] = "none" /\ ~aborted[w]
    /\ driver' = [driver EXCEPT ![w] = "open"]
    /\ UNCHANGED <<nodes, edges, nextId, now, aborted, pc, missed, item, routine, outcome,
                   returned, pre, committed, merged, errors, calls>>
    /\ UNCHANGED crawlVars

\* GraphDatabase.driver(...) raises, or the driver is made and RETURN 1 raises:
\* open_spider logs and re-raises, which ends the run
open_spider_fails(w) ==
    /\ pc[w] = "idle" /\ driver[w] = "none" /\ ~aborted[w]
    /\ aborted' = [aborted EXCEPT ![w] = TRUE]
    /\ \E d \in {"none", "unverified"} : driver' = [driver EXCEPT ![w] = d]
    /\ UNCHANGED <<nodes, edges, nextId, now, pc, missed, item, routine, outcome,
                   returned, pre, committed, merged, errors, calls>>
    /\ UNCHANGED crawlVars

\* Neo4jPipeline.close_spider: `if self.driver:` a driver that was made is
\* closed, whether or not open_spider verified it, and self.driver stays set;
\* every session asked of it from then on fails.  Without a driver nothing is
\* done.
close_spider(w) ==
    /\ pc[w] = "idle"
    /\ driver' = [driver EXCEPT ![w] = IF driver[w] = "none" THEN "none" ELSE "closed"]
    /\ UNCHANGED <<nodes, edges, nextId, now, aborted, pc, missed, item, routine, outcome,
                   returned, pre, committed, merged, errors, calls>>
    /\ UNCHANGED crawlVars

\* The call ends: process_item returns the item
Return(w, how, it) ==
    /\ pc' = [pc EXCEPT ![w] = "idle"]
    /\ outcome' = [outcome EXCEPT ![w] = how]
    /\ returned' = [returned EXCEPT ![w] = it]

\* Where a call goes after its dispatch: the first statement of the routine, or
\* the return for an item the routine skips
Enter(it) ==
    CASE Dispatch(it) = "fiction" -> IF Truthy(it.fiction_id) THEN "fiction_node" ELSE "skipped"
      [] Dispatch(it) = "review" -> IF Truthy(it.review_id) THEN "review_node" ELSE "skipped"
      [] OTHER -> "unknown"

\* process_item without its `if not self.driver` guard
process_item_unguarded(w, it) ==
    /\ pc[w] = "idle" /\ ~aborted[w]
    /\ calls' = [calls EXCEPT ![w] = @ + 1]
    /\ item' = [item EXCEPT ![w] = it]
    /\ pre' = [pre EXCEPT ![w] = [nodes |-> nodes, edges |-> edges]]
    /\ committed' = [committed EXCEPT ![w] = <<>>]
    /\ routine' = [routine EXCEPT ![w] = Dispatch(it)]
    /\ IF Enter(it) \in {"skipped", "unknown"}
       THEN Return(w, Enter(it), it)
       ELSE /\ pc' = [pc EXCEPT ![w] = Enter(it)]
            /\ UNCHANGED <<outcome, returned>>
    /\ UNCHANGED <<nodes, edges, nextId, now, driver, aborted, missed, merged, errors>>

\* Neo4jPipeline.process_item up to the first store statement: what the call
\* does to the pipeline and the store
process_item(w, it) ==
    /\ pc[w] = "idle" /\ ~aborted[w]
    /\ calls' = [calls EXCEPT ![w] = @ + 1]
    /\ item' = [item EXCEPT ![w] = it]
    /\ pre' = [pre EXCEPT ![w] = [nodes |-> nodes, edges |-> edges]]
    /\ committed' = [committed EXCEPT ![w] = <<>>]
    /\ IF driver[w] = "none"
       THEN /\ routine' = [routine EXCEPT ![w] = "none"]
            /\ Return(w, "no_driver", it)
       ELSE /\ routine' = [routine EXCEPT ![w] = Dispatch(it)]
            /\ IF Enter(it) \in {"skipped", "unknown"}
               THEN Return(w, Enter(it), it)
               ELSE /\ pc' = [pc EXCEPT ![w] = Enter(it)]
                    /\ UNCHANGED <<outcome, returned>>
    /\ UNCHANGED <<nodes, edges, nextId, now, driver, aborted, missed, merged, errors>>

\* The positions of the node MERGE statements, and the label and id each
\* matches on
NodeMergePcs == {"fiction_node", "fiction_user", "review_node", "review_user"}

MergeKey(w) ==
    CASE pc[w] = "fiction_node" -> <<"Fiction", item[w].fiction_id[1]>>
      [] pc[w] = "review_node" -> <<"Review", item[w].review_id[1]>>
      [] pc[w] \in {"fiction_user", "review_user"} -> <<"User", item[w].author_id[1]>>

\* The nodes the MERGE at pc has matched: none when its match found none
\* (whatever the store holds by now), else the nodes of the key, which it
\* matches and writes in one step
Matched(w) ==
    IF missed[w] THEN {} ELSE NodesOf(nodes, MergeKey(w)[1], MergeKey(w)[2])

\* The statements of _process_fiction_item and _process_review_item: each gives
\* the store after the statement and the statement that follows it ("done" at the
\* end of the routine).
FictionNode(w) ==
    [nodes |-> MergeNode(nodes, Matched(w), nextId, "Fiction", item[w].fiction_id[1],
                         item[w], extract_fiction_properties(item[w]), now),
     edges |-> edges,
     merges |-> {<<"Fiction", item[w].fiction_id[1]>>},
     next |-> IF Truthy(item[w].author_id) THEN "fiction_user" ELSE "done"]

FictionUser(w) ==
    [nodes |-> MergeNode(nodes, Matched(w), nextId, "User", item[w].author_id[1],
                         item[w], {}, now),
     edges |-> edges,
     merges |-> {<<"User", item[w].author_id[1]>>},
     next |-> "fiction_edge"]

FictionEdge(w) ==
    [nodes |-> nodes,
     edges |-> MergeEdge(edges, nodes, nextId, "WROTE_FICTION",
                         "User", item[w].author_id[1], "Fiction", item[w].fiction_id[1]),
     merges |-> {},
     next |-> "done"]

ReviewNode(w) ==
    [nodes |-> MergeNode(nodes, Matched(w), nextId, "Review", item[w].review_id[1],
                         item[w], extract_review_properties(item[w]), now),
     edges |-> edges,
     merges |-> {<<"Review", item[w].review_id[1]>>},
     next |-> IF Truthy(item[w].author_id) THEN "review_user"
              ELSE IF Truthy(item[w].fiction_id) THEN "review_reviews" ELSE "done"]

ReviewUser(w) ==
    [nodes |-> MergeNode(nodes, Matched(w), nextId, "User", item[w].author_id[1],
                         item[w], {}, now),
     edges |-> edges,
     merges |-> {<<"User", item[w].author_id[1]>>},
     next |-> "review_wrote"]

ReviewWrote(w) ==
    [nodes |-> nodes,
     edges |-> MergeEdge(edges, nodes, nextId, "WROTE_REVIEW",
                         "User", item[w].author_id[1], "Review", item[w].review_id[1]),
     merges |-> {},
     next |-> IF Truthy(item[w].fiction_id) THEN "review_reviews" ELSE "done"]

ReviewReviews(w) ==
    [nodes |-> nodes,
     edges |-> MergeEdge(edges, nodes, nextId, "REVIEWS",
                         "Review", item[w].review_id[1], "Fiction", item[w].fiction_id[1]),
     merges |-> {},
     next |-> "done"]

StatementAt(w) ==
    CASE pc[w] = "fiction_node" -> FictionNode(w)
      [] pc[w] = "fiction_user" -> FictionUser(w)
      [] pc[w] = "fiction_edge" -> FictionEdge(w)
      [] pc[w] = "review_node" -> ReviewNode(w)
      [] pc[w] = "review_user" -> ReviewUser(w)
      [] pc[w] = "review_wrote" -> ReviewWrote(w)
      [] pc[w] = "review_reviews" -> ReviewReviews(w)

\* The match of a node MERGE finds no node of the key.  The source declares no
\* uniqueness constraint, so the store holds no lock on a key that has no node:
\* between this match and the creation that follows it, the statements of other
\* pipelines may commit.
MergeMisses(w) ==
    /\ pc[w] \in NodeMergePcs /\ driver[w] = "open" /\ ~missed[w]
    /\ NodesOf(nodes, MergeKey(w)[1], MergeKey(w)[2]) = {}
    /\ missed' = [missed EXCEPT ![w] = TRUE]
    /\ UNCHANGED <<nodes, edges, nextId, now, driver, aborted, pc, item, routine, outcome,
                   returned, pre, committed, merged, errors, calls>>
    /\ UNCHANGED crawlVars

\* session.run succeeds: the statement at pc commits in its own auto-commit
\* transaction, the clock moves, and the call goes on to the next statement or
\* returns the item.  A node MERGE commits the creation its missed match led to,
\* or matches and writes the nodes of its key.
RunStatement(w) ==
    /\ pc[w] /= "idle" /\ driver[w] = "open"
    /\ pc[w] \in NodeMergePcs => (missed[w] \/ Matched(w) /= {})
    /\ nodes' = StatementAt(w).nodes
    /\ edges' = StatementAt(w).edges
    /\ nextId' = nextId + 1
    /\ now' = now + 1
    /\ committed' = [committed EXCEPT ![w] = Append(@, pc[w])]
    /\ missed' = [missed EXCEPT ![w] = FALSE]
    /\ IF StatementAt(w).next = "done"
       THEN Return(w, "ok", item[w])
       ELSE /\ pc' = [pc EXCEPT ![w] = StatementAt(w).next]
            /\ UNCHANGED <<outcome, returned>>
    /\ merged' = merged \cup StatementAt(w).merges
    /\ UNCHANGED <<driver, aborted, item, routine, pre, errors, calls>>
    /\ UNCHANGED crawlVars

\* The except clause re-raises: the exception leaves process_item and ends the run
StatementFailsAndRaises(w) ==
    /\ pc[w] /= "idle"
    /\ now' = now + 1
    /\ errors' = [errors EXCEPT ![w] = @ + 1]
    /\ pc' = [pc EXCEPT ![w] = "idle"]
    /\ missed' = [missed EXCEPT ![w] = FALSE]
    /\ outcome' = [outcome EXCEPT ![w] = "raised"]
    /\ aborted' = [aborted EXCEPT ![w] = TRUE]
    /\ UNCHANGED <<nodes, edges, nextId, driver, item, routine, returned, pre,
                   committed, merged, calls>>
    /\ UNCHANGED crawlVars

\* The driver gives no session (it is closed) or session.run raises: the
\* statement writes nothing, process_item's except clause logs the error and the
\* call returns the item
StatementFails(w) ==
    /\ pc[w] /= "idle"
    /\ now' = now + 1
    /\ errors' = [errors EXCEPT ![w] = @ + 1]
    /\ missed' = [missed EXCEPT ![w] = FALSE]
    /\ Return(w, "error", item[w])
    /\ UNCHANGED <<nodes, edges, nextId, driver, aborted, item, routine, pre,
                   committed, merged, calls>>
    /\ UNCHANGED crawlVars

\* The engine gives pipeline w an item, the crawl left aside
Deliver(w) ==
    /\ TotalCalls < MaxItems
    /\ \E it \in Items : process_item(w, it)
    /\ UNCHANGED crawlVars

Step(w) ==
    \/ open_spider(w)
    \/ open_spider_fails(w)
    \/ close_spider(w)
    \/ Deliver(w)
    \/ MergeMisses(w)
    \/ RunStatement(w)
    \/ StatementFails(w)

Next == Step(1)

Spec == Init /\ [][Next]_vars

NextConc == \E w \in Workers : Step(w)

SpecConc == Init /\ [][NextConc]_vars

(***************************************************************************)
(* The crawl.  A callback is a generator: it runs to its next yield and     *)
(* stands there while the engine deals with what it yielded.  An item goes  *)
(* to the pipeline, whose process_item returns before the engine resumes    *)
(* the callback; a request goes to the scheduler.  out holds what the       *)
(* callback has yielded so far.                                             *)
(***************************************************************************)
\* A callback begins: it runs to its first yield, or to its end when it yields
\* nothing
Begin(full) ==
    IF full = <<>>
    THEN phase' = "parsed" /\ out' = <<>>
    ELSE phase' = "yielded" /\ out' = <<full[1]>>

\* The start URL's response arrives: parse runs on it, up to its first yield
parse(page) ==
    /\ phase = "start" /\ driver[1] = "open"
    /\ callback' = "parse"
    /\ response' = page
    /\ meta' = None
    /\ \E result \in {ParseOutput(page)} :
          /\ Begin(result.out)
          /\ craised' = result.raised
          /\ saved' = result.saved
          /\ origin' = result.fiction_id
    /\ UNCHANGED hops
    /\ UNCHANGED pipelineVars

\* The engine gives the item the callback stands at to the pipeline
hand_to_pipeline ==
    /\ phase = "yielded" /\ out[Len(out)].kind = "item"
    /\ TotalCalls < MaxDeliveries
    /\ process_item(1, out[Len(out)].item)
    /\ phase' = "handed"
    /\ UNCHANGED <<callback, response, meta, out, craised, saved, hops, origin>>

\* All the callback that is running yields
CallbackOutput ==
    IF callback = "parse" THEN ParseOutput(response).out
    ELSE ParseReviewsOutput(response, meta)

\* The engine resumes the callback, process_item having returned or the yielded
\* value being none for the pipeline: the callback runs to its next yield, or to
\* its end
resume ==
    /\ \/ phase = "yielded" /\ out[Len(out)].kind /= "item"
       \/ phase = "handed" /\ pc[1] = "idle"
    /\ \E full \in {CallbackOutput} :
          IF Len(out) < Len(full)
          THEN phase' = "yielded" /\ out' = Append(out, full[Len(out) + 1])
          ELSE phase' = "parsed" /\ out' = out
    /\ UNCHANGED <<callback, response, meta, craised, saved, hops, origin>>
    /\ UNCHANGED pipelineVars

\* The engine takes the follow request the last callback yielded
follow ==
    /\ phase = "parsed" /\ hops < MaxHops
    /\ out /= <<>> /\ out[Len(out)].kind = "request"
    /\ phase' = "follow"
    /\ meta' = out[Len(out)].meta
    /\ hops' = hops + 1
    /\ response' = NoPage
    /\ out' = <<>>
    /\ UNCHANGED <<callback, craised, saved, origin>>
    /\ UNCHANGED pipelineVars

\* A request for parse_reviews that carries no fiction_id
request_without_context ==
    /\ phase = "start" /\ driver[1] = "open"
    /\ phase' = "follow"
    /\ meta' = None
    /\ hops' = hops + 1
    /\ UNCHANGED <<callback, response, out, craised, saved, origin>>
    /\ UNCHANGED pipelineVars

\* The continuation page's response arrives: parse_reviews runs on it, up to its
\* first yield
parse_reviews(page) ==
    /\ phase = "follow"
    /\ callback' = "parse_reviews"
    /\ response' = page
    /\ \E full \in {ParseReviewsOutput(page, meta)} : Begin(full)
    /\ craised' = FALSE
    /\ UNCHANGED <<meta, saved, hops, origin>>
    /\ UNCHANGED pipelineVars

\* The responses the downloader may deliver to the callback that is due
StartResponse == phase = "start" /\ driver[1] = "open" /\ \E page \in Pages(MaxReviews) : parse(page)
ContinuationResponse == phase = "follow" /\ \E page \in ContinuationPages : parse_reviews(page)

\* The engine opens the pipeline before the first request, and closes it when
\* no callback is running and no request is out
SpiderOpened == phase = "start" /\ (open_spider(1) \/ open_spider_fails(1))
SpiderClosed ==
    /\ phase = "parsed" /\ ~(out /= <<>> /\ out[Len(out)].kind = "request")
    /\ close_spider(1)

\* The statements of the process_item call the engine is waiting for
PipelineStep == phase = "handed" /\ (MergeMisses(1) \/ RunStatement(1) \/ StatementFails(1))

NextCrawl ==
    \/ SpiderOpened
    \/ StartResponse
    \/ hand_to_pipeline
    \/ PipelineStep
    \/ resume
    \/ follow
    \/ request_without_context
    \/ ContinuationResponse
    \/ SpiderClosed

SpecCrawl == Init /\ [][NextCrawl]_vars
(***************************************************************************)
(* The claims.                                                             *)
(***************************************************************************)
Keys(label) == {n.id : n \in {m \in nodes : m.label = label}}
                 \cup {k[2] : k \in {j \in merged : j[1] = label}}

Count(label, id) == Cardinality(NodesOf(nodes, label, id))

\* A call of process_item has been made on this pipeline
Called(w) == calls[w] > 0

\* The store is as it was when the pipeline's current call began
StoreAsBefore(w) == nodes = pre[w].nodes /\ edges = pre[w].edges

\* A Review as the spider emits it: every required field present
OrchestratorReview(it) ==
    it.cls = "RoyalRoadFictionReviewItem" /\ missing_fields(it) = {}

\* C1: after any sequence of process_item calls the store holds at most one
\* Fiction node per fiction id, and exactly one for every fiction id whose
\* Fiction MERGE has committed.
C1_OneFictionNodePerId ==
    \A f \in Keys("Fiction") :
        /\ Count("Fiction", f) <= 1
        /\ (<<"Fiction", f>> \in merged => Count("Fiction", f) = 1)

\* The same Fiction id has been upserted twice: the second call, on a Fiction
\* item, found the node of the first and has returned.
C1_Witness ==
    /\ pc[1] = "idle" /\ outcome[1] = "ok" /\ calls[1] = 2
    /\ item[1].cls = "RoyalRoadFictionItem"
    /\ committed[1] = <<"fiction_node">>
    /\ NodesOf(pre[1].nodes, "Fiction", item[1].fiction_id[1]) /= {}
    /\ Count("Fiction", item[1].fiction_id[1]) = 1

\* C2: a Review as the spider emits it (review_id present, fiction_id injected)
\* that process_item handles without error is never routed to the Fiction
\* upsert and leaves a Review node keyed by its review_id.
C2_ReviewsReachReviewUpsert ==
    \A w \in Workers :
        (Called(w) /\ pc[w] = "idle" /\ outcome[w] = "ok" /\ OrchestratorReview(item[w]))
        => /\ routine[w] /= "fiction"
           /\ Count("Review", item[w].review_id[1]) >= 1

\* C3: a Review item without review_id given to process_item causes no write
\* to the store, whatever its other fields.
C3_NoWriteWithoutReviewId ==
    \A w \in Workers :
        (Called(w) /\ item[w].cls = "RoyalRoadFictionReviewItem" /\ item[w].review_id = None)
        => committed[w] = <<>> /\ StoreAsBefore(w)

\* C4: the upsert of one record is atomic: when a statement of it fails, the
\* store is as it was before the upsert began.
C4_UpsertIsAtomic ==
    \A w \in Workers :
        (Called(w) /\ pc[w] = "idle" /\ outcome[w] = "error") => StoreAsBefore(w)

\* C5: when pipelines upsert records with the same fiction_id, review_id or
\* author id concurrently, the store ends with exactly one node for each such
\* key and at most one relationship per type and endpoints.
C5_ConcurrentMergeByKey ==
    (\A w \in Workers : pc[w] = "idle") =>
        /\ \A v, w \in Workers :
              (v /= w /\ outcome[v] = "ok" /\ outcome[w] = "ok" /\ Called(v) /\ Called(w)) =>
                 /\ (/\ item[v].cls = "RoyalRoadFictionItem"
                     /\ item[w].cls = "RoyalRoadFictionItem"
                     /\ item[v].fiction_id = item[w].fiction_id)
                    => Count("Fiction", item[w].fiction_id[1]) = 1
                 /\ (/\ item[v].cls = "RoyalRoadFictionReviewItem"
                     /\ item[w].cls = "RoyalRoadFictionReviewItem"
                     /\ Truthy(item[w].review_id)
                     /\ item[v].review_id = item[w].review_id)
                    => Count("Review", item[w].review_id[1]) = 1
                 /\ (Truthy(item[w].author_id) /\ item[v].author_id = item[w].author_id)
                    => Count("User", item[w].author_id[1]) = 1
        /\ \A n, m \in nodes : (n.label = m.label /\ n.id = m.id) => n = m
        /\ \A e, g \in edges : (e.type = g.type /\ e.src = g.src /\ e.dst = g.dst) => e = g

\* C6: once the driver is open process_item never raises: whatever statement
\* fails, the call returns its item and leaves the pipeline open, and the next
\* call is dispatched on its own item alone.
C6_ProcessItemNeverRaises ==
    [][\A w \in Workers :
          /\ (driver[w] = "open" /\ (pc[w] /= "idle" \/ calls'[w] = calls[w] + 1))
             => (driver'[w] = "open" /\ ~aborted'[w])
          /\ (pc[w] /= "idle" /\ pc'[w] = "idle")
             => (returned'[w] = item[w] /\ outcome'[w] \in {"ok", "error"})
          /\ (driver[w] = "open" /\ calls'[w] = calls[w] + 1)
             => IF Enter(item'[w]) \in {"skipped", "unknown"}
                THEN pc'[w] = "idle" /\ returned'[w] = item'[w]
                ELSE pc'[w] = Enter(item'[w])]_vars

\* A statement of one record failed while the driver was open, and a later
\* record was then written.
C6_Witness ==
    /\ errors[1] > 0 /\ driver[1] = "open"
    /\ pc[1] = "idle" /\ outcome[1] = "ok" /\ committed[1] /= <<>>
    /\ returned[1] = item[1]

\* The Fiction MERGE of some pipeline commits in this step for fiction id f
FictionMergeCommits(f) ==
    \E w \in Workers :
        /\ pc[w] = "fiction_node" /\ item[w].fiction_id[1] = f
        /\ Len(committed'[w]) = Len(committed[w]) + 1

\* C7: a Fiction node keeps its created_at in every write after the one that
\* created it, every upsert of its fiction id moves its updated_at strictly
\* forward, and a node is created with both stamps at the time of the write.
C7_CreatedAtKeptUpdatedAtAdvances ==
    [][/\ \A n \in nodes :
             n.label = "Fiction" =>
                \E m \in nodes' :
                   /\ m.nid = n.nid /\ m.created_at = n.created_at
                   /\ m.updated_at >= n.updated_at
                   /\ FictionMergeCommits(n.id) => m.updated_at > n.updated_at
       /\ \A m \in nodes' :
             (m.label = "Fiction" /\ ~\E n \in nodes : n.nid = m.nid)
             => (m.created_at = now /\ m.updated_at = now)]_vars

\* Two successive successful upserts of one Fiction id: the node the first
\* created is still there with its created_at, and its updated_at is later.
C7_Witness ==
    /\ pc[1] = "idle" /\ outcome[1] = "ok" /\ errors[1] = 0 /\ calls[1] = 2
    /\ item[1].cls = "RoyalRoadFictionItem"
    /\ \E n \in nodes, m \in pre[1].nodes :
          /\ n.label = "Fiction" /\ n.id = item[1].fiction_id[1]
          /\ m.nid = n.nid /\ m.created_at = n.created_at
          /\ m.updated_at = m.created_at
          /\ n.updated_at > m.updated_at

ReviewsIn(outputs) ==
    {i \in 1..Len(outputs) :
        outputs[i].kind = "item" /\ outputs[i].item.cls = "RoyalRoadFictionReviewItem"}

FictionsIn(outputs) ==
    {i \in 1..Len(outputs) :
        outputs[i].kind = "item" /\ outputs[i].item.cls = "RoyalRoadFictionItem"}

\* A callback has begun: it stands at a yield or has ended
Begun == phase \in {"yielded", "handed", "parsed"}

\* What the callback that has begun has yet to yield
ToCome == SubSeq(CallbackOutput, Len(out) + 1, Len(CallbackOutput))

\* parse_reviews began on a page whose request carried no fiction_id and whose
\* URL gives none
Unattributable ==
    /\ Begun /\ callback = "parse_reviews"
    /\ meta = None /\ extract_fiction_id_from_url(response.url) = None

\* C8: no Review a callback yields has an absent fiction_id, and parse_reviews
\* yields nothing for a page with neither a carried fiction_id nor one in its
\* URL: it ends at once.
C8_NoReviewWithoutFictionId ==
    /\ \A i \in ReviewsIn(out) : out[i].item.fiction_id /= None
    /\ Begun => \A i \in ReviewsIn(ToCome) : ToCome[i].item.fiction_id /= None
    /\ Unattributable => (phase = "parsed" /\ out = <<>>)

\* parse_reviews gave up on a page that has complete reviews and a Next link.
C8_Witness ==
    /\ Unattributable
    /\ phase = "parsed"
    /\ response.next
    /\ \E i \in 1..Len(response.reviews) :
          missing_fields(load_review_item(response.reviews[i], Some(1))) = {}
    /\ out = <<>>

\* parse ran on a page it classified FICTION, and came to its extraction
ParsedFictionPage ==
    /\ phase = "parsed" /\ callback = "parse" /\ saved
    /\ determine_page_type(response.url) = "fiction"

\* C9: for every page classified FICTION, whatever is found on it, fiction
\* extraction returns without raising and parse yields exactly one Fiction item.
C9_FictionPageYieldsOneFiction ==
    ParsedFictionPage => (~craised /\ Cardinality(FictionsIn(out)) = 1)

\* C10: the Fiction item's fiction_id is the integer of the URL whenever the
\* path matches /fiction/{digits}/ (0 included), the script's integer only when
\* the URL does not match, and absent only when both fail.
C10_FictionIdFromUrlFirst ==
    (ParsedFictionPage /\ ~craised) =>
        \A i \in FictionsIn(out) :
            out[i].item.fiction_id =
                IF extract_fiction_id_from_url(response.url) /= None
                THEN extract_fiction_id_from_url(response.url)
                ELSE extract_fiction_id_from_script(response.scripts)

\* C11: a Fiction item whose fiction_id is absent never leaves parse: no item
\* parse yields for the pipeline is a Fiction without fiction_id.
C11_NoFictionWithoutIdYielded ==
    (phase = "parsed" /\ callback = "parse") =>
        \A i \in FictionsIn(out) : out[i].item.fiction_id /= None

RequestsIn(outputs) == {i \in 1..Len(outputs) : outputs[i].kind = "request"}

\* A callback of a chain that began with parse on the start page has begun
InChain ==
    /\ Begun
    /\ callback = "parse" \/ (callback = "parse_reviews" /\ origin /= None)

\* C12: along the chain of review pages that starts at a fiction page, every
\* review and every follow request a callback yields carries the fiction_id
\* parse resolved on the start page, a page yields at most one follow request
\* and yields it last, and parse_reviews yields no Fiction item.  It holds of
\* what the callback has yielded and of what it has yet to yield.
C12_ChainCarriesFictionId ==
    /\ InChain =>
          LET all == out \o ToCome
          IN /\ \A i \in ReviewsIn(all) : all[i].item.fiction_id = origin
             /\ \A i \in RequestsIn(all) : all[i].meta = origin /\ i = Len(all)
             /\ Cardinality(RequestsIn(all)) <= 1
             /\ callback = "parse_reviews" => FictionsIn(all) = {}
    /\ (phase = "follow" /\ origin /= None) => meta = origin

\* The second continuation page of a chain, whose own URL names another
\* fiction, yielded reviews and a further follow request.
C12_Witness ==
    /\ InChain /\ phase = "parsed" /\ callback = "parse_reviews" /\ hops = 2
    /\ Truthy(origin)
    /\ Truthy(extract_fiction_id_from_url(response.url))
    /\ extract_fiction_id_from_url(response.url) /= origin
    /\ ReviewsIn(out) /= {}
    /\ RequestsIn(out) /= {}

\* A path of at least two segments whose first is profile or user
AuthorUrl(url) ==
    /\ Len(PathParts(url)) >= 2
    /\ PathParts(url)[1] = ProfileSegment \/ PathParts(url)[1] = UserSegment

\* C13: for a profile or user URL parse skips the page and yields no Fiction, no
\* Review and no follow request; for every other URL, the empty path and
\* unrelated paths included, parse goes through fiction extraction: it comes to
\* the loader, and the loader raises or the Fiction item is what parse yields
\* first.
C13_AuthorPagesEmitNothing ==
    (phase = "parsed" /\ callback = "parse") =>
        IF AuthorUrl(response.url)
        THEN /\ ~craised
             /\ FictionsIn(out) = {} /\ ReviewsIn(out) = {} /\ RequestsIn(out) = {}
        ELSE /\ saved
             /\ craised \/ (out /= <<>> /\ 1 \in FictionsIn(out))

\* C14: a failure of open_spider propagates and ends the run with nothing
\* written; no other step of the pipeline ends the run; and process_item
\* called while the pipeline has no open driver returns its item and writes
\* nothing.
C14_OnlyOpenSpiderFailureIsFatal ==
    [][/\ aborted'[1] => (nodes' = {} /\ edges' = {})
       /\ driver[1] /= "open" => (nodes' = nodes /\ edges' = edges)
       /\ \A w \in Workers :
             /\ (aborted'[w] /\ ~aborted[w])
                => /\ driver[w] = "none" /\ pc[w] = "idle" /\ calls'[w] = calls[w]
                   /\ nodes' = nodes /\ edges' = edges
             /\ aborted[w] => (aborted'[w] /\ nodes' = nodes /\ edges' = edges)
             /\ (driver[w] = "none" /\ calls'[w] = calls[w] + 1)
                => /\ pc'[w] = "idle" /\ outcome'[w] = "no_driver"
                   /\ returned'[w] = item'[w]
                   /\ nodes' = nodes /\ edges' = edges
             /\ (driver[w] = "closed" /\ pc[w] /= "idle" /\ pc'[w] /= pc[w])
                => (pc'[w] = "idle" /\ returned'[w] = item[w])]_vars

\* A record with a fiction_id was given to the pipeline before it had a driver
\* and came back unwritten; open_spider then failed.
C14_Witness ==
    /\ aborted[1]
    /\ calls[1] > 0 /\ outcome[1] = "no_driver" /\ returned[1] = item[1]
    /\ Truthy(item[1].fiction_id)
    /\ nodes = {} /\ edges = {}

\* The fragments of the first description selector, in priority order, that
\* found any
FirstMatching(d) ==
    IF d.hidden /= <<>> THEN d.hidden ELSE IF d.text /= <<>> THEN d.text ELSE d.meta

\* C15: the Fiction item's description is the fragments of the first
\* description selector that matched, cleaned of tags and surrounding
\* whitespace and joined with newlines, and nothing of the selectors after it.
C15_DescriptionFromFirstSelector ==
    (ParsedFictionPage /\ ~craised) =>
        \A i \in FictionsIn(out) :
            out[i].item.description =
                IF FirstMatching(response.description) = <<>> THEN None
                ELSE Some(Join(StripHtmlAll(FirstMatching(response.description))))

\* The href of the author-profile link of a page: that of the .portlet-body
\* link, else that of the .fic-title one
AuthorLink(page) ==
    IF page.portlet.found THEN page.portlet.href
    ELSE IF page.fictitle.found THEN page.fictitle.href
    ELSE <<>>

\* C16: when the author-profile link of a fiction page has a numeric profile
\* id, parse yields a Fiction item whose author_id is that number.
C16_FictionCarriesAuthorId ==
    (/\ ParsedFictionPage
     /\ SearchDigits(AuthorLink(response), ProfileLiteral) /= <<>>)
    => /\ ~craised
       /\ \E i \in FictionsIn(out) :
             out[i].item.author_id =
                Some(ToInt(SearchDigits(AuthorLink(response), ProfileLiteral)))

\* parse ran on a fiction page, resolved a fiction_id and went on to its reviews
ParsedReviewsOfFictionPage == ParsedFictionPage /\ ~craised /\ Truthy(origin)

\* C17: a review element that gives every required field but the reviewer's id
\* is yielded: the filter does not drop a review for its missing author_id.
C17_ReviewerIdNotRequired ==
    ParsedReviewsOfFictionPage =>
        \A i \in 1..Len(response.reviews) :
            LET it == load_review_item(response.reviews[i], origin)
            IN missing_fields(it) \subseteq {"author_id"}
               => \E j \in ReviewsIn(out) : out[j].item = it

\* C18: a review element whose star class is star-0, every other required
\* field present, is yielded with overall_rating 0.0.
C18_StarZeroReviewEmitted ==
    ParsedReviewsOfFictionPage =>
        \A i \in 1..Len(response.reviews) :
            LET it == load_review_item(response.reviews[i], origin)
            IN (it.overall_rating = Some(0) /\ missing_fields(it) \subseteq {"overall_rating"})
               => \E j \in ReviewsIn(out) : out[j].item = it

\* Ratings in tenths of a star: 0.0 to 5.0
RatingRange == 0..50

\* C19: parse_star_rating gives no value or one within 0.0 and 5.0 for every
\* star class a callback reads, so no Review a callback yields has an
\* overall_rating outside that range.
C19_RatingsWithinRange ==
    phase = "parsed" =>
        /\ \A i \in 1..Len(response.reviews) :
              LET rating == parse_star_rating(response.reviews[i].stars)
              IN rating = None \/ rating[1] \in RatingRange
        /\ \A j \in ReviewsIn(out) :
              /\ out[j].item.overall_rating /= None
              /\ out[j].item.overall_rating[1] \in RatingRange

IdentityFields == {"fiction_id", "review_id", "author_id"}
MetadataFields == {"scraped_at", "version"}

\* The node MERGE of the pipeline's current upsert commits in this step
NodeMergeCommits(w) ==
    /\ pc[w] \in {"fiction_node", "review_node"}
    /\ Len(committed'[w]) = Len(committed[w]) + 1

\* The nodes that MERGE matches
UpsertTargets(w) ==
    IF pc[w] = "fiction_node" THEN NodesOf(nodes, "Fiction", item[w].fiction_id[1])
    ELSE NodesOf(nodes, "Review", item[w].review_id[1])

\* C20: when a record is upserted onto an existing node, the node keeps its
\* key, every non-identity, non-metadata field the record holds has the
\* record's value on the node, and every property the record does not hold
\* keeps the value it had.
C20_UpsertOverwritesPresentKeepsAbsent ==
    [][\A w \in Workers :
          NodeMergeCommits(w) =>
             \A n \in UpsertTargets(w) :
                \E m \in nodes' :
                   /\ m.nid = n.nid /\ m.label = n.label /\ m.id = n.id
                   /\ \A k \in PropFields :
                         /\ (item[w][k] /= None /\ k \notin IdentityFields \cup MetadataFields)
                            => m.props[k] = item[w][k]
                         /\ item[w][k] = None => m.props[k] = n.props[k]]_vars

\* A Fiction with a title was upserted, then the same Fiction without a title
\* but from a review's fields: the node has the review's title and still has
\* the Fiction's title.
C20_Witness ==
    /\ pc[1] = "idle" /\ outcome[1] = "ok" /\ calls[1] = 2
    /\ committed[1] /= <<>> /\ committed[1][1] = "fiction_node"
    /\ item[1].title = None /\ item[1].review_title /= None
    /\ \E n \in NodesOf(nodes, "Fiction", item[1].fiction_id[1]) :
          \E m \in pre[1].nodes :
             /\ m.nid = n.nid
             /\ m.props.title /= None /\ m.props.review_title = None
             /\ n.props.title = m.props.title
             /\ n.props.review_title = item[1].review_title

\* C21: after process_item has upserted without error a Review that holds a
\* review_id and a fiction_id, a REVIEWS relationship leads from the Review
\* node of that review_id to a Fiction node of that fiction_id, whether or not
\* the Fiction node was in the store before.
C21_ReviewsEdgeAfterReviewUpsert ==
    \A w \in Workers :
        (/\ Called(w) /\ pc[w] = "idle" /\ outcome[w] = "ok"
         /\ item[w].cls = "RoyalRoadFictionReviewItem"
         /\ Truthy(item[w].review_id) /\ Truthy(item[w].fiction_id))
        => \E e \in edges :
              /\ e.type = "REVIEWS"
              /\ \E r \in NodesOf(nodes, "Review", item[w].review_id[1]) : e.src = r.nid
              /\ \E f \in NodesOf(nodes, "Fiction", item[w].fiction_id[1]) : e.dst = f.nid

\* C22: an item that has been through the item pipelines, ScraperPipeline and
\* Neo4jPipeline, holds a scraped_at timestamp and version 1.
C22_ProvenanceMetadataSet ==
    \A w \in Workers :
        (Called(w) /\ pc[w] = "idle")
        => LET passed == ScraperPipeline_process_item(returned[w])
           IN passed.scraped_at /= None /\ passed.version = Some(1)

\* The label and id of the node with internal id nid
KeyOf(nid) == LET n == CHOOSE m \in nodes : m.nid = nid IN <<n.label, n.id>>

\* The relationships of a type between the nodes of two keys
EdgesBetween(type, srcLabel, srcId, dstLabel, dstId) ==
    {e \in edges : /\ e.type = type
                   /\ KeyOf(e.src) = <<srcLabel, srcId>>
                   /\ KeyOf(e.dst) = <<dstLabel, dstId>>}

\* C23: after any sequence of upserts the store holds at most one
\* WROTE_FICTION relationship per User and Fiction, at most one WROTE_REVIEW
\* per User and Review, at most one REVIEWS per Review and Fiction, and at most
\* one User node per author id.
C23_EdgeMergesIdempotent ==
    /\ \A u \in Keys("User"), f \in Keys("Fiction") :
          Cardinality(EdgesBetween("WROTE_FICTION", "User", u, "Fiction", f)) <= 1
    /\ \A u \in Keys("User"), r \in Keys("Review") :
          Cardinality(EdgesBetween("WROTE_REVIEW", "User", u, "Review", r)) <= 1
    /\ \A r \in Keys("Review"), f \in Keys("Fiction") :
          Cardinality(EdgesBetween("REVIEWS", "Review", r, "Fiction", f)) <= 1
    /\ \A u \in Keys("User") : Count("User", u) <= 1

\* A Review with its reviewer was upserted when the store already held the
\* reviewer, the Review and the WROTE_REVIEW relationship between them.
C23_Witness ==
    /\ pc[1] = "idle" /\ outcome[1] = "ok" /\ calls[1] = 2
    /\ committed[1] = <<"review_node", "review_user", "review_wrote">>
    /\ \E e \in pre[1].edges : e.type = "WROTE_REVIEW"
    /\ Cardinality(EdgesBetween("WROTE_REVIEW", "User", item[1].author_id[1],
                                "Review", item[1].review_id[1])) = 1
    /\ Count("User", item[1].author_id[1]) = 1

ReviewPropFields == {"review_id", "review_title", "review", "by", "overall_rating"}

\* C24: a WROTE_FICTION relationship is written only by the upsert of a
\* Fiction item that holds its fiction_id and author_id, and no Fiction node
\* ever carries a review property: upserting Review items adds neither.
C24_FictionGraphFromFictionsOnly ==
    [][/\ \A e \in edges' \ edges :
             e.type = "WROTE_FICTION" =>
                \E w \in Workers :
                   /\ pc[w] = "fiction_edge"
                   /\ Len(committed'[w]) = Len(committed[w]) + 1
                   /\ item[w].cls = "RoyalRoadFictionItem"
       /\ \A m \in nodes' :
             m.label = "Fiction" => \A k \in ReviewPropFields \cap PropFields : m.props[k] = None]_vars

====
